---- MODULE Spec2Model ----
(***************************************************************************)
(* Model of sitemap_extract.py: the sitemap crawl of process_all_sitemaps  *)
(* (queue, dedup sets, counters), the worker task process_sitemap with its *)
(* two fetch paths, and the files written by save_urls.                    *)
(*                                                                         *)
(* Strings are sequences of tokens: the separators "/" and "." are tokens  *)
(* of their own and every other token is a run of characters holding no    *)
(* separator, so that split('/'), split('.') and endswith('.xml.gz') are    *)
(* computed on the tokens exactly as Python computes them on characters.   *)
(***************************************************************************)
EXTENDS Integers, Sequences, FiniteSets, TLC

\* ------------------------------------------------------------------ bounds
MaxUrls == 2
MaxPages == 2
MaxSeeds == 3
MaxEntries == 2

\* ------------------------------------------------------------ the universe
Host == <<"https:", "/", "/", "example", ".", "com", "/">>

UrlList ==
  << Host \o <<"sitemap_index", ".", "xml">>,
     Host \o <<"sitemap1", ".", "xml", ".", "gz">>,
     Host \o <<"blog", "/", "sitemap1", ".", "xml">>,
     Host \o <<"sitemap2", ".", "xml">>,
     Host \o <<"news", ".", "xml", ".", "gz">> >>

PageList ==
  << Host \o <<"a">>, Host \o <<"b">>, Host \o <<"c">>, Host \o <<"d">> >>

Min(a, b) == IF a < b THEN a ELSE b

Urls == {UrlList[i] : i \in 1..Min(MaxUrls, Len(UrlList))}

Pages == {PageList[i] : i \in 1..Min(MaxPages, Len(PageList))}

SeqsUpTo(S, n) == UNION {[1..k -> S] : k \in 0..n}

Range(s) == {s[i] : i \in DOMAIN s}

\* --------------------------------------------------------- string helpers
\* s.endswith(suffix)
EndsWith(s, suffix) ==
  /\ Len(s) >= Len(suffix)
  /\ SubSeq(s, Len(s) - Len(suffix) + 1, Len(s)) = suffix

\* s.split(sep)[-1]: what follows the last separator
SplitLast(s, sep) ==
  LET idx == {i \in DOMAIN s : s[i] = sep}
  IN  IF idx = {} THEN s
      ELSE SubSeq(s, (CHOOSE i \in idx : \A j \in idx : j <= i) + 1, Len(s))

\* s.split(sep)[0]: what precedes the first separator
SplitFirst(s, sep) ==
  LET idx == {i \in DOMAIN s : s[i] = sep}
  IN  IF idx = {} THEN s
      ELSE SubSeq(s, 1, (CHOOSE i \in idx : \A j \in idx : i <= j) - 1)

\* save_urls, lines 71-72: the name of the file a source is written to
Filename(url) ==
  LET filename == SplitFirst(SplitLast(url, "/"), ".")
  IN  IF filename # <<>> THEN filename \o <<".", "txt">>
      ELSE <<"sitemap_urls", ".", "txt">>

\* save_urls, lines 73-76: the file system after open(filename, 'w') and the
\* writes of the header line and one line per url
save_urls(fs, url, urls) ==
  [f \in DOMAIN fs \cup {Filename(url)} |->
     IF f = Filename(url) THEN [header |-> url, lines |-> urls] ELSE fs[f]]

\* the orders in which iterating a Python set can yield its elements
Orderings(S) ==
  {s \in [1..Cardinality(S) -> S] : \A i, j \in DOMAIN s : s[i] = s[j] => i = j}

\* ------------------------------------------------------- documents, replies
\* A child element of the document root: a <sitemap> or <url> entry with at
\* most one <loc> child, whose text is a URL.
Entries ==
  [tag : {"sitemap"}, loc : {<<u>> : u \in Urls}]
    \cup [tag : {"url"}, loc : {<<p>> : p \in Pages}]
    \cup [tag : {"sitemap"}, loc : {<<>>}]

Docs == SeqsUpTo(Entries, MaxEntries)

\* What scraper.get answers: it raises, or gives a status and a body; a body
\* is gzip-compressed or not and holds a document or text that is no XML.
Responses ==
  {[kind |-> "net_error"], [kind |-> "status", status |-> 404]}
    \cup {[kind |-> "status", status |-> 200, gz |-> g, wellformed |-> FALSE] :
            g \in BOOLEAN}
    \cup {[kind |-> "status", status |-> 200, gz |-> g, wellformed |-> TRUE,
           doc |-> d] : g \in BOOLEAN, d \in Docs}

\* lines 103-106 and 109-112: the loc texts of the entries with a tag, in
\* document order, skipping entries with no loc
RECURSIVE Locs(_, _)
Locs(doc, tag) ==
  IF doc = <<>> THEN <<>>
  ELSE (IF Head(doc).tag = tag /\ Head(doc).loc # <<>>
          THEN <<Head(doc).loc[1]>> ELSE <<>>) \o Locs(Tail(doc), tag)

\* fetch_xml, lines 49-55: "raise", "none" or the parsed root
fetch_xml(resp) ==
  IF resp.kind = "net_error" THEN [out |-> "raise", exc |-> "RequestException"]
  ELSE IF resp.status = 200
    THEN IF resp.gz \/ ~resp.wellformed
           THEN [out |-> "raise", exc |-> "ParseError"]
           ELSE [out |-> "root", root |-> resp.doc]
    ELSE [out |-> "none"]

\* decompress_gz, lines 61-68
decompress_gz(resp) ==
  IF resp.kind = "net_error" THEN [out |-> "raise", exc |-> "RequestException"]
  ELSE IF resp.status = 200
    THEN IF ~resp.gz THEN [out |-> "raise", exc |-> "BadGzipFile"]
         ELSE IF ~resp.wellformed THEN [out |-> "raise", exc |-> "ParseError"]
         ELSE [out |-> "root", root |-> resp.doc]
    ELSE [out |-> "none"]

\* line 134: current_url.endswith('.xml.gz')
IsCompressed(url) == EndsWith(url, <<".", "xml", ".", "gz">>)

\* mutant: the compression flag is ignored
FetchPath_AlwaysPlain(is_compressed) == "fetch_xml"

\* line 94: the fetch path process_sitemap takes
FetchPath(is_compressed) ==
  IF is_compressed THEN "decompress_gz" ELSE "fetch_xml"

\* process_sitemap, lines 93-116: what the task does with a reply.
\* saved tells whether save_urls(url, page_urls) was called (line 115), path
\* which of the two fetch functions line 94 called. An Element with no child
\* is false in Python, so line 95 takes a root with no entry for a failure.
process_sitemap(url, is_compressed, resp) ==
  LET r == IF FetchPath(is_compressed) = "decompress_gz"
             THEN decompress_gz(resp) ELSE fetch_xml(resp)
      path == FetchPath(is_compressed)
  IN  IF r.out = "raise"
        THEN [state |-> "raised", exc |-> r.exc, saved |-> FALSE, path |-> path,
              sitemap_urls |-> <<>>, page_urls |-> <<>>]
      ELSE IF r.out = "none" \/ Len(r.root) = 0
        THEN [state |-> "returned", exc |-> "", saved |-> FALSE, path |-> path,
              sitemap_urls |-> <<>>, page_urls |-> <<>>]
      ELSE [state |-> "returned", exc |-> "", saved |-> TRUE, path |-> path,
            sitemap_urls |-> Locs(r.root, "sitemap"),
            page_urls |-> Locs(r.root, "url")]

\* mutant: only the first new URL of a result is kept
RECURSIVE NewSitemaps_FirstOnly(_, _)
NewSitemaps_FirstOnly(sitemap_urls, seen) ==
  IF sitemap_urls = <<>> THEN <<>>
  ELSE IF Head(sitemap_urls) \notin seen THEN <<Head(sitemap_urls)>>
  ELSE NewSitemaps_FirstOnly(Tail(sitemap_urls), seen)

\* line 138: the returned sitemap URLs that are not in the set, in order
RECURSIVE NewSitemaps(_, _)
NewSitemaps(sitemap_urls, seen) ==
  IF sitemap_urls = <<>> THEN <<>>
  ELSE (IF Head(sitemap_urls) \notin seen THEN <<Head(sitemap_urls)>> ELSE <<>>)
         \o NewSitemaps(Tail(sitemap_urls), seen)

\* ------------------------------------------------------------------- state
VARIABLES
  pc,               \* where the program is
  web,              \* what the site answers for the URLs fetched so far
  urls_to_process,  \* the seed list given to the run
  queue,
  all_sitemap_urls,
  all_page_urls,
  processed_count,
  total_sitemaps,
  current_url,      \* <<>> outside an iteration, <<url>> inside
  future,           \* the task submitted at line 134
  files,            \* the file system: file name -> header and lines
  ret,              \* <<>> or the pair returned at line 148
  tasks,            \* history: one record per task run by the executor
  saves,            \* history: the source of every save_urls call, in order
  appended          \* history: every URL put in the queue, in order, with the
                    \* depth at which it was found (0 for a seed)

vars == <<pc, web, urls_to_process, queue, all_sitemap_urls, all_page_urls,
          processed_count, total_sitemaps, current_url, future, files, ret,
          tasks, saves, appended>>

NoFuture == [state |-> "none"]

Init ==
  /\ pc \in {"main", "call"}
  /\ web = <<>>
  /\ urls_to_process \in SeqsUpTo(Urls, MaxSeeds)
  /\ queue = <<>>
  /\ all_sitemap_urls = {}
  /\ all_page_urls = {}
  /\ processed_count = 0
  /\ total_sitemaps = 0
  /\ current_url = <<>>
  /\ future = NoFuture
  /\ files = <<>>
  /\ ret = <<>>
  /\ tasks = <<>>
  /\ saves = <<>>
  /\ appended = <<>>

\* __main__, lines 161-178: with no URL given, log the error and stop
Main ==
  /\ pc = "main"
  /\ pc' = IF urls_to_process # <<>> THEN "call" ELSE "no_urls"
  /\ UNCHANGED <<web, urls_to_process, queue, all_sitemap_urls, all_page_urls,
                 processed_count, total_sitemaps, current_url, future, files,
                 ret, tasks, saves, appended>>

\* mutant: an empty seed list falls back to a default sitemap
Start_DefaultSeed ==
  /\ pc = "call"
  /\ all_sitemap_urls' = {}
  /\ all_page_urls' = {}
  /\ queue' = IF urls_to_process = <<>> THEN <<UrlList[1]>> ELSE urls_to_process
  /\ processed_count' = 0
  /\ total_sitemaps' = Len(queue')
  /\ appended' = [i \in DOMAIN queue' |-> [url |-> queue'[i], depth |-> 0]]
  /\ pc' = "loop"
  /\ UNCHANGED <<web, urls_to_process, current_url, future, files, ret, tasks, saves>>

\* mutant: the total starts at zero instead of the number of seeds
Start_ZeroTotal ==
  /\ pc = "call"
  /\ all_sitemap_urls' = {}
  /\ all_page_urls' = {}
  /\ queue' = urls_to_process
  /\ processed_count' = 0
  /\ total_sitemaps' = 0
  /\ appended' = [i \in DOMAIN queue' |-> [url |-> queue'[i], depth |-> 0]]
  /\ pc' = "loop"
  /\ UNCHANGED <<web, urls_to_process, current_url, future, files, ret, tasks, saves>>

\* process_all_sitemaps, lines 119-125
Start ==
  /\ pc = "call"
  /\ all_sitemap_urls' = {}
  /\ all_page_urls' = {}
  /\ queue' = urls_to_process
  /\ processed_count' = 0
  /\ total_sitemaps' = Len(urls_to_process)
  /\ appended' = [i \in DOMAIN queue' |-> [url |-> queue'[i], depth |-> 0]]
  /\ pc' = "loop"
  /\ UNCHANGED <<web, urls_to_process, current_url, future, files, ret, tasks, saves>>

\* mutant: the loop submits the task and goes on without waiting for it
Submit_NoWait ==
  /\ pc = "loop"
  /\ queue # <<>>
  /\ current_url' = <<Head(queue)>>
  /\ queue' = Tail(queue)
  /\ processed_count' = processed_count + 1
  /\ future' = [state |-> "running", url |-> Head(queue),
                is_compressed |-> IsCompressed(Head(queue))]
  /\ pc' = "loop"
  /\ UNCHANGED <<web, urls_to_process, all_sitemap_urls, all_page_urls,
                 total_sitemaps, files, ret, tasks, saves, appended>>

\* mutant: queue.pop() instead of queue.pop(0)
Submit_Lifo ==
  /\ pc = "loop"
  /\ queue # <<>>
  /\ current_url' = <<queue[Len(queue)]>>
  /\ queue' = SubSeq(queue, 1, Len(queue) - 1)
  /\ processed_count' = processed_count + 1
  /\ future' = [state |-> "running", url |-> queue[Len(queue)],
                is_compressed |-> IsCompressed(queue[Len(queue)])]
  /\ pc' = "result"
  /\ UNCHANGED <<web, urls_to_process, all_sitemap_urls, all_page_urls,
                 total_sitemaps, files, ret, tasks, saves, appended>>

\* lines 128-134: pop the head of the queue and submit its task
Submit ==
  /\ pc = "loop"
  /\ queue # <<>>
  /\ current_url' = <<Head(queue)>>
  /\ queue' = Tail(queue)
  /\ processed_count' = processed_count + 1
  /\ future' = [state |-> "running", url |-> Head(queue),
                is_compressed |-> IsCompressed(Head(queue))]
  /\ pc' = "result"
  /\ UNCHANGED <<web, urls_to_process, all_sitemap_urls, all_page_urls,
                 total_sitemaps, files, ret, tasks, saves, appended>>

\* scraper.get(url), lines 49 and 61: the site answers a URL the same way
\* every time it is asked during one run
Get(url) == IF url \in DOMAIN web THEN {web[url]} ELSE Responses

\* mutant: the task adds its page URLs to the shared set itself
RunTask_WritesShared ==
  /\ future.state = "running"
  /\ \E resp \in Get(future.url) :
       LET r == process_sitemap(future.url, future.is_compressed, resp)
       IN  /\ web' = [u \in DOMAIN web \cup {future.url} |->
                        IF u = future.url THEN resp ELSE web[u]]
           /\ all_page_urls' = all_page_urls \cup Range(r.page_urls)
           /\ future' = [state |-> r.state, exc |-> r.exc,
                         sitemap_urls |-> r.sitemap_urls,
                         page_urls |-> r.page_urls]
           /\ files' = IF r.saved THEN save_urls(files, future.url, r.page_urls)
                       ELSE files
           /\ saves' = IF r.saved THEN Append(saves, future.url) ELSE saves
           /\ tasks' = Append(tasks,
                 [url |-> future.url, path |-> r.path,
                  state |-> r.state, exc |-> r.exc, saved |-> r.saved,
                  sitemap_urls |-> r.sitemap_urls, page_urls |-> r.page_urls,
                  queue |-> queue])
  /\ UNCHANGED <<pc, urls_to_process, queue, all_sitemap_urls,
                 processed_count, total_sitemaps, current_url, ret, appended>>

\* the worker thread runs process_sitemap, lines 93-116
RunTask ==
  /\ future.state = "running"
  /\ \E resp \in Get(future.url) :
       LET r == process_sitemap(future.url, future.is_compressed, resp)
       IN  /\ web' = [u \in DOMAIN web \cup {future.url} |->
                        IF u = future.url THEN resp ELSE web[u]]
           /\ future' = [state |-> r.state, exc |-> r.exc,
                         sitemap_urls |-> r.sitemap_urls,
                         page_urls |-> r.page_urls]
           /\ files' = IF r.saved THEN save_urls(files, future.url, r.page_urls)
                       ELSE files
           /\ saves' = IF r.saved THEN Append(saves, future.url) ELSE saves
           /\ tasks' = Append(tasks,
                 [url |-> future.url, path |-> r.path,
                  state |-> r.state, exc |-> r.exc, saved |-> r.saved,
                  sitemap_urls |-> r.sitemap_urls, page_urls |-> r.page_urls,
                  queue |-> queue])
  /\ UNCHANGED <<pc, urls_to_process, queue, all_sitemap_urls, all_page_urls,
                 processed_count, total_sitemaps, current_url, ret, appended>>

\* mutant: the page set is assigned, not updated
Merge_Overwrite ==
  /\ pc = "result"
  /\ future.state = "returned"
  /\ LET new_sitemaps == NewSitemaps(future.sitemap_urls, all_sitemap_urls)
     IN  /\ all_sitemap_urls' = all_sitemap_urls \cup Range(future.sitemap_urls)
         /\ all_page_urls' = Range(future.page_urls)
         /\ queue' = queue \o new_sitemaps
         /\ total_sitemaps' = total_sitemaps + Len(new_sitemaps)
         /\ appended' = appended \o
               [i \in DOMAIN new_sitemaps |->
                  [url |-> new_sitemaps[i],
                   depth |-> appended[processed_count].depth + 1]]
  /\ current_url' = <<>>
  /\ future' = NoFuture
  /\ pc' = "loop"
  /\ UNCHANGED <<web, urls_to_process, processed_count, files, ret, tasks, saves>>

\* lines 135-144: future.result() returns and the loop merges the result.
\* (history: the task being merged is the processed_count-th one, and the
\* URLs it adds lie one level below the URL it fetched)
Merge ==
  /\ pc = "result"
  /\ future.state = "returned"
  /\ LET new_sitemaps == NewSitemaps(future.sitemap_urls, all_sitemap_urls)
     IN  /\ all_sitemap_urls' = all_sitemap_urls \cup Range(future.sitemap_urls)
         /\ all_page_urls' = all_page_urls \cup Range(future.page_urls)
         /\ queue' = queue \o new_sitemaps
         /\ total_sitemaps' = total_sitemaps + Len(new_sitemaps)
         /\ appended' = appended \o
               [i \in DOMAIN new_sitemaps |->
                  [url |-> new_sitemaps[i],
                   depth |-> appended[processed_count].depth + 1]]
  /\ current_url' = <<>>
  /\ future' = NoFuture
  /\ pc' = "loop"
  /\ UNCHANGED <<web, urls_to_process, processed_count, files, ret, tasks, saves>>

\* line 135: future.result() re-raises the task's exception, which nothing
\* catches: it leaves the with block and process_all_sitemaps
Raise ==
  /\ pc = "result"
  /\ future.state = "raised"
  /\ pc' = "raised"
  /\ UNCHANGED <<web, urls_to_process, queue, all_sitemap_urls, all_page_urls,
                 processed_count, total_sitemaps, current_url, future, files,
                 ret, tasks, saves, appended>>

\* mutant: the aggregate is written whenever the loop is between two tasks
Finish_Early ==
  /\ pc = "loop"
  /\ \E lines \in Orderings(all_sitemap_urls) :
       files' = save_urls(files, <<"sitemap_index">>, lines)
  /\ saves' = Append(saves, <<"sitemap_index">>)
  /\ ret' = <<all_sitemap_urls, all_page_urls>>
  /\ pc' = "done"
  /\ UNCHANGED <<web, urls_to_process, queue, all_sitemap_urls, all_page_urls,
                 processed_count, total_sitemaps, current_url, future, tasks,
                 appended>>

\* lines 147-148: the queue is empty; write the aggregate and return
Finish ==
  /\ pc = "loop"
  /\ queue = <<>>
  /\ \E lines \in Orderings(all_sitemap_urls) :
       files' = save_urls(files, <<"sitemap_index">>, lines)
  /\ saves' = Append(saves, <<"sitemap_index">>)
  /\ ret' = <<all_sitemap_urls, all_page_urls>>
  /\ pc' = "done"
  /\ UNCHANGED <<web, urls_to_process, queue, all_sitemap_urls, all_page_urls,
                 processed_count, total_sitemaps, current_url, future, tasks,
                 appended>>

Next == Main \/ Start \/ Submit \/ RunTask \/ Merge \/ Raise \/ Finish

Spec == Init /\ [][Next]_vars

\* The program is sequential: the interpreter runs the main thread's next
\* statement, and the executor runs a submitted task, whenever there is one.
FairSpec == Spec /\ WF_vars(Next)

\* ================================================================== claims
\* helpers of the claims: what the history and the site say about a task
NoDuplicates(q) == \A i, j \in DOMAIN q : q[i] = q[j] => i = j

Dispatched == {tasks[i].url : i \in DOMAIN tasks}

Terminated == pc \in {"done", "raised", "no_urls"}

\* the site answered the task's URL with a status other than 200
HttpFailed(i) ==
  /\ web[tasks[i].url].kind = "status"
  /\ web[tasks[i].url].status # 200

\* the site answered with status 200 and the task fetched and parsed the body
Succeeded(i) ==
  /\ tasks[i].state = "returned"
  /\ web[tasks[i].url].kind = "status"
  /\ web[tasks[i].url].status = 200

\* the URLs a fetched document lists under a tag, read off the document
Listed(i, tag) ==
  {e.loc[1] : e \in {x \in Range(web[tasks[i].url].doc) :
                       x.tag = tag /\ x.loc # <<>>}}

AggregateFile == <<"sitemap_index", ".", "txt">>

\* C1: with a seed list holding no URL twice, no sitemap URL is dispatched to
\* process_sitemap more than once in a run, however it is rediscovered.
C1_DispatchedAtMostOnce ==
  NoDuplicates(urls_to_process) =>
    \A i, j \in DOMAIN tasks : tasks[i].url = tasks[j].url => i = j

\* C2: when process_all_sitemaps has returned, every seed and every sitemap
\* URL listed by a successfully fetched document has been dispatched, and
\* every page URL listed by such a document is in the returned page set.
C2_ReachableSetEnumerated ==
  pc = "done" =>
    /\ Range(urls_to_process) \subseteq Dispatched
    /\ \A i \in DOMAIN tasks :
         Succeeded(i) =>
           /\ Listed(i, "sitemap") \subseteq Dispatched
           /\ Listed(i, "url") \subseteq ret[2]

\* C2 witness: a finished run in which a fetched document listed a sitemap
\* that is no seed together with a page.
C2_Witness ==
  /\ pc = "done"
  /\ \E i \in DOMAIN tasks :
       /\ Succeeded(i)
       /\ Listed(i, "sitemap") \ Range(urls_to_process) # {}
       /\ Listed(i, "url") # {}

\* C3: at the end of a run the aggregate file lists every sitemap URL the run
\* visited (here: fetched and parsed with success), seeds included, each
\* exactly once, and the returned sitemap set is the set of its lines.
C3_AggregateHoldsVisited ==
  pc = "done" =>
    /\ AggregateFile \in DOMAIN files
    /\ NoDuplicates(files[AggregateFile].lines)
    /\ {tasks[i].url : i \in {k \in DOMAIN tasks : Succeeded(k)}}
         \subseteq Range(files[AggregateFile].lines)
    /\ ret[1] = Range(files[AggregateFile].lines)

\* C4: a task whose fetch got a non-success HTTP status returns no child and
\* no page and saves nothing, and once the run has ended every URL that was
\* in the queue at that time has been dispatched, in queue order, and each
\* one whose document was fetched with entries has had its pages saved.
C4_HttpFailureIsolated ==
  \A i \in DOMAIN tasks :
    HttpFailed(i) =>
      /\ tasks[i].sitemap_urls = <<>>
      /\ tasks[i].page_urls = <<>>
      /\ ~tasks[i].saved
      /\ Terminated =>
           \A k \in DOMAIN tasks[i].queue :
             /\ i + k \in DOMAIN tasks
             /\ tasks[i + k].url = tasks[i].queue[k]
             /\ (Succeeded(i + k) /\ web[tasks[i + k].url].doc # <<>>)
                  => tasks[i].queue[k] \in Range(saves)

\* C5: an exception raised in a task (network error, corrupt gzip, malformed
\* XML) never propagates out of the loop: the run does not end by raising.
C5_FailuresAbsorbed ==
  (\E i \in DOMAIN tasks : tasks[i].state = "raised") => pc # "raised"

\* the fetch of a task failed: the get raised or the status was not 200
FetchFailed(i) ==
  \/ web[tasks[i].url].kind = "net_error"
  \/ HttpFailed(i)

\* C6: a run in which every fetch failed ends by returning, with the
\* aggregate written and both returned sets empty.
C6_AllFailedStillCompletes ==
  (Terminated /\ tasks # <<>> /\ \A i \in DOMAIN tasks : FetchFailed(i)) =>
    /\ pc = "done"
    /\ AggregateFile \in DOMAIN files
    /\ ret = <<{}, {}>>

\* C7: with an empty seed list no task is ever submitted or run, nothing is
\* fetched, both sets stay empty, and a call of process_all_sitemaps returns
\* a pair of empty sets.
C7_EmptyInput ==
  urls_to_process = <<>> =>
    /\ tasks = <<>>
    /\ web = <<>>
    /\ future = NoFuture
    /\ pc \in {"main", "no_urls", "call", "loop", "done"}
    /\ processed_count = 0
    /\ all_sitemap_urls = {} /\ all_page_urls = {}
    /\ pc = "done" => ret = <<{}, {}>>

\* C7 witness: process_all_sitemaps has returned from an empty seed list.
C7_Witness == urls_to_process = <<>> /\ pc = "done"

\* C8: when the run has returned, the page URLs of every source whose fetch
\* and parse succeeded were saved exactly once.
C8_PersistedExactlyOnce ==
  pc = "done" =>
    \A i \in DOMAIN tasks :
      Succeeded(i) =>
        Cardinality({k \in DOMAIN saves : saves[k] = tasks[i].url}) = 1

\* C9: when the run has returned, every source that was saved still has a
\* file whose header is its URL and whose lines are its page URLs.
C9_ArtifactsKept ==
  pc = "done" =>
    \A i \in DOMAIN tasks :
      tasks[i].saved =>
        \E f \in DOMAIN files :
          /\ files[f].header = tasks[i].url
          /\ files[f].lines = tasks[i].page_urls

\* the last four tokens of a URL spell .xml.gz
HasGzSuffix(u) ==
  /\ Len(u) >= 4
  /\ u[Len(u) - 3] = "." /\ u[Len(u) - 2] = "xml"
  /\ u[Len(u) - 1] = "." /\ u[Len(u)] = "gz"

\* C10: every task fetches through decompress_gz when its URL ends in .xml.gz
\* and through fetch_xml otherwise, whatever was fetched before.
C10_CompressionRouting ==
  \A i \in DOMAIN tasks :
    tasks[i].path = IF HasGzSuffix(tasks[i].url) THEN "decompress_gz"
                    ELSE "fetch_xml"

\* C10 witness: a run dispatched a discovered child that ends in .xml.gz and
\* a URL that does not.
C10_Witness ==
  \E i, j \in DOMAIN tasks :
    /\ HasGzSuffix(tasks[i].url)
    /\ tasks[i].url \notin Range(urls_to_process)
    /\ ~HasGzSuffix(tasks[j].url)

\* C11: once process_all_sitemaps has initialised its state and before the
\* first dequeue, the queue is the seed list, the sitemap set is the set of
\* the seeds and the page set is empty; and at all times every URL in the
\* queue is a member of the sitemap set.
C11_InitialisedFromSeeds ==
  /\ (pc = "loop" /\ processed_count = 0) =>
       /\ queue = urls_to_process
       /\ all_sitemap_urls = Range(urls_to_process)
       /\ all_page_urls = {}
  /\ Range(queue) \subseteq all_sitemap_urls

\* what a step of the loop appended to the queue (Merge is the only step that
\* leaves pc = "result" for pc = "loop", and it appends to the queue)
AppendedBy(q, q2) == SubSeq(q2, Len(q) + 1, Len(q2))

\* C12: when the loop merges a task's result, the URLs it appends to the
\* queue were not in the sitemap set before and no URL is appended twice,
\* even when the result lists it more than once.
C12_ChildAppendedOnce ==
  [][(pc = "result" /\ pc' = "loop") =>
       /\ queue' = queue \o AppendedBy(queue, queue')
       /\ Range(AppendedBy(queue, queue')) =
            Range(future.sitemap_urls) \ all_sitemap_urls
       /\ NoDuplicates(AppendedBy(queue, queue'))]_vars

\* the number of times the aggregate was written
AggregateSaves == Cardinality({k \in DOMAIN saves : saves[k] = <<"sitemap_index">>})

\* C13: a run whose fetches all succeed or fail by HTTP status (no task
\* raises) ends by returning; the aggregate is written exactly once, in the
\* step that returns, with the queue empty and no task in flight, never
\* before; and once the result is returned nothing changes any more.
C13_TerminatesAndPersistsOnce ==
  /\ <>(pc \in {"done", "no_urls"} \/ \E i \in DOMAIN tasks : tasks[i].state = "raised")
  /\ [](pc = "done" =>
          /\ AggregateSaves = 1
          /\ saves[Len(saves)] = <<"sitemap_index">>
          /\ queue = <<>>
          /\ future = NoFuture
          /\ ret = <<all_sitemap_urls, all_page_urls>>)
  /\ [](pc # "done" => AggregateSaves = 0 /\ ret = <<>>)
  /\ [][pc = "done" => UNCHANGED vars]_vars

\* C13 witness: a run has returned after a task failed by HTTP status and
\* after a document referred to its own URL (a cycle of length one).
C13_Witness ==
  /\ pc = "done"
  /\ \E i \in DOMAIN tasks : HttpFailed(i)
  /\ \E i \in DOMAIN tasks : tasks[i].url \in Range(tasks[i].sitemap_urls)

\* the depth at which a URL was first put in the queue, and the number of
\* the first task that fetched it
FirstDepth(u) ==
  appended[CHOOSE i \in DOMAIN appended :
             /\ appended[i].url = u
             /\ \A j \in DOMAIN appended : appended[j].url = u => i <= j].depth

FirstDispatch(u) ==
  CHOOSE i \in DOMAIN tasks :
    /\ tasks[i].url = u
    /\ \A j \in DOMAIN tasks : tasks[j].url = u => i <= j

\* C14: the i-th task fetches the i-th URL that was put in the queue (seeds
\* in input order, then children in the order of the result that added
\* them), and a URL first found at a smaller depth is first dispatched
\* before any URL first found at a greater depth.
C14_FifoBreadthFirst ==
  /\ Len(tasks) <= Len(appended)
  /\ \A i \in DOMAIN tasks : tasks[i].url = appended[i].url
  /\ \A i, j \in DOMAIN appended : i <= j => appended[i].depth <= appended[j].depth
  /\ \A v \in Dispatched :
       \A u \in {appended[i].url : i \in DOMAIN appended} :
         FirstDepth(u) < FirstDepth(v) =>
           /\ u \in Dispatched
           /\ FirstDispatch(u) < FirstDispatch(v)
  /\ pc = "done" => Len(tasks) = Len(appended)

\* C14 witness: a run has returned after fetching URLs found at depths 0, 1
\* and 2, one of its results having added two URLs to the queue.
C14_Witness ==
  /\ pc = "done"
  /\ \E i \in DOMAIN appended : appended[i].depth = 2
  /\ \E i \in DOMAIN appended :
       /\ i + 1 \in DOMAIN appended
       /\ appended[i].depth = 1 /\ appended[i + 1].depth = 1

\* C15: no step removes an element from the sitemap set or from the page
\* set, and the step that takes the result of a task that returned nothing
\* (a failed fetch, a document with no entry) or that raised leaves both
\* sets and the queue as they were.
C15_SetsMonotonic ==
  [][/\ all_sitemap_urls \subseteq all_sitemap_urls'
     /\ all_page_urls \subseteq all_page_urls'
     /\ (/\ pc = "result" /\ pc' # "result"
         /\ future.sitemap_urls = <<>> /\ future.page_urls = <<>>)
          => UNCHANGED <<all_sitemap_urls, all_page_urls, queue>>]_vars

\* C15 witness: both sets hold elements and the queue holds a URL right
\* after the result of a task that failed by HTTP status was taken.
C15_Witness ==
  /\ pc = "loop"
  /\ all_sitemap_urls # {} /\ all_page_urls # {} /\ queue # <<>>
  /\ tasks # <<>> /\ HttpFailed(Len(tasks))

\* C16: the step of the worker task changes neither the queue nor either
\* set; the sets change only in the step in which the loop takes a returned
\* result, and only by what that result holds; the queue changes only in a
\* step of the loop (initialisation, dequeue, merge of a returned result).
C16_SingleWriter ==
  [][/\ tasks' # tasks => UNCHANGED <<queue, all_sitemap_urls, all_page_urls>>
     /\ (all_sitemap_urls' # all_sitemap_urls \/ all_page_urls' # all_page_urls) =>
          /\ pc = "result" /\ future.state = "returned" /\ pc' = "loop"
          /\ all_sitemap_urls' = all_sitemap_urls \cup Range(future.sitemap_urls)
          /\ all_page_urls' = all_page_urls \cup Range(future.page_urls)
     /\ queue' # queue =>
          \/ pc = "call"
          \/ pc = "loop" /\ future = NoFuture
          \/ pc = "result" /\ future.state = "returned" /\ pc' = "loop"]_vars

\* C16 witness: a task has returned children and pages that the loop has
\* not taken yet: neither set holds them.
C16_Witness ==
  /\ pc = "result" /\ future.state = "returned"
  /\ Range(future.sitemap_urls) # {}
  /\ Range(future.sitemap_urls) \cap all_sitemap_urls = {}
  /\ Range(future.page_urls) # {}
  /\ Range(future.page_urls) \cap all_page_urls = {}

\* the results of the tasks run so far, but for the last n, are in the sets
MergedButLast(n) ==
  \A i \in DOMAIN tasks :
    i <= Len(tasks) - n =>
      /\ Range(tasks[i].sitemap_urls) \subseteq all_sitemap_urls
      /\ Range(tasks[i].page_urls) \subseteq all_page_urls

\* C17: a task is in flight only while the loop waits at future.result(),
\* it is the only task not yet run, and the results of all tasks before it
\* are merged; whenever the loop is about to dequeue, no task is in flight
\* and every task submitted so far has run and has had its result merged.
C17_OneTaskInFlight ==
  /\ future.state = "running" =>
       /\ pc = "result"
       /\ Len(tasks) = processed_count - 1
       /\ MergedButLast(0)
  /\ future.state \in {"returned", "raised"} =>
       /\ pc \in {"result", "raised"}
       /\ Len(tasks) = processed_count
       /\ MergedButLast(1)
  /\ pc \in {"loop", "done"} =>
       /\ future = NoFuture
       /\ Len(tasks) = processed_count
       /\ MergedButLast(0)

\* C17 witness: a second task is in flight, the first one's children and
\* pages being in the sets, with a further URL waiting in the queue.
C17_Witness ==
  /\ future.state = "running"
  /\ Len(tasks) >= 1
  /\ tasks[1].sitemap_urls # <<>> /\ tasks[1].page_urls # <<>>
  /\ queue # <<>>

\* C18: from initialisation on, processed_count + len(queue) equals
\* total_sitemaps (in particular at the start and at the end of every
\* iteration), processed_count never exceeds total_sitemaps and counts the
\* tasks submitted, and when the loop ends on an empty queue
\* processed_count = total_sitemaps = the number of dispatches.
C18_ProgressCounters ==
  /\ pc \in {"loop", "result", "raised", "done"} =>
       /\ processed_count + Len(queue) = total_sitemaps
       /\ processed_count <= total_sitemaps
       /\ total_sitemaps = Len(appended)
  /\ pc \in {"loop", "raised", "done"} => processed_count = Len(tasks)
  /\ pc = "done" =>
       /\ processed_count = total_sitemaps
       /\ total_sitemaps = Len(tasks)

\* C18 witness: the loop is between two iterations with tasks done, URLs
\* still queued and children counted in the total.
C18_Witness ==
  /\ pc = "loop"
  /\ processed_count >= 2
  /\ queue # <<>>
  /\ total_sitemaps > Len(urls_to_process)

TypeOK ==
  /\ pc \in {"main", "call", "no_urls", "loop", "result", "raised", "done"}
  /\ all_sitemap_urls \subseteq Urls
  /\ all_page_urls \subseteq Pages
  /\ processed_count \in Nat
  /\ total_sitemaps \in Nat
====
